---- MODULE Spec2Model ----
(***************************************************************************)
(* The content-addressable object store of rust-git: the byte codec        *)
(* (header, zlib framing, digest, hex), the two-level object directory,    *)
(* id resolution, GitObject::read, and the hash-object write path.         *)
(*                                                                         *)
(* Bytes are naturals 0..255, byte strings are sequences of bytes, and an  *)
(* object id is a sequence of hex digits 0..15.                            *)
(***************************************************************************)
EXTENDS Integers, Sequences, FiniteSets, TLC

VARIABLES
    dirs,       \* the two-character directories that exist under .git/objects
    store,      \* object files: [dir, name] -> the bytes of the file
    tmp,        \* temporary files: name -> the bytes of the file
    written,    \* history: the objects written with -w so far, with the hash returned
    out,        \* the outcome of the last completed command
    wpc,        \* concurrent writers: position in hash_object / write_object
    wbody,      \* concurrent writers: the input bytes
    whash,      \* concurrent writers: the hash computed
    rpc,        \* concurrent readers: position in GitObject::read
    rid,        \* concurrent readers: the id asked for
    rpath,      \* concurrent readers: the path find_object_file resolved
    rseen       \* concurrent readers: the bytes read from the object file

vars == <<dirs, store, tmp, written, out, wpc, wbody, whash, rpc, rid, rpath, rseen>>

fsVars == <<dirs, store, tmp>>
procVars == <<wpc, wbody, whash, rpc, rid, rpath, rseen>>

-----------------------------------------------------------------------------
(* Bounds of the model.                                                    *)

\* longest blob body
MaxBodyLen == 1
\* most distinct objects written in one behaviour
MaxObjects == 2

\* length of a hex object id: 20 digest bytes, two hex digits each
HashLen == 40

ByteAlphabet == {0, 97}

SeqsUpTo(S, n) == UNION {[1..k -> S] : k \in 0..n}

\* the inputs of hash-object
Bodies == SeqsUpTo(ByteAlphabet, MaxBodyLen)
\* the bodies write-tree and commit-tree hand to hash_object
OtherBodies == {<<>>, <<97>>}

-----------------------------------------------------------------------------
(* Byte helpers.                                                           *)

StartsWith(s, p) == Len(p) <= Len(s) /\ SubSeq(s, 1, Len(p)) = p

\* index of the first byte equal to b, or 0
RECURSIVE FirstIndexFrom(_, _, _)
FirstIndexFrom(s, b, i) ==
    IF i > Len(s) THEN 0
    ELSE IF s[i] = b THEN i
    ELSE FirstIndexFrom(s, b, i + 1)

FirstIndex(s, b) == FirstIndexFrom(s, b, 1)

\* index of the last byte equal to b, or 0
RECURSIVE LastIndexFrom(_, _, _)
LastIndexFrom(s, b, i) ==
    IF i < 1 THEN 0
    ELSE IF s[i] = b THEN i
    ELSE LastIndexFrom(s, b, i - 1)

LastIndex(s, b) == LastIndexFrom(s, b, Len(s))

\* the name of an object kind as ASCII bytes
KindBytes(kind) ==
    CASE kind = "blob" -> <<98, 108, 111, 98>>
      [] kind = "tree" -> <<116, 114, 101, 101>>
      [] kind = "commit" -> <<99, 111, 109, 109, 105, 116>>

\* format!("{}", n) of an unsigned length: decimal ASCII, no leading zeros
RECURSIVE DecimalBytes(_)
DecimalBytes(n) ==
    IF n < 10 THEN <<48 + n>>
    ELSE DecimalBytes(n \div 10) \o <<48 + (n % 10)>>

\* parse of a decimal length: -1 stands for None
RECURSIVE ParseDecimalFrom(_, _, _)
ParseDecimalFrom(s, i, acc) ==
    IF i > Len(s) THEN acc
    ELSE IF s[i] < 48 \/ s[i] > 57 THEN -1
    ELSE ParseDecimalFrom(s, i + 1, acc * 10 + (s[i] - 48))

u8_slice_to_usize(s) == IF Len(s) = 0 THEN -1 ELSE ParseDecimalFrom(s, 1, 0)

\* hex::encode: two hex digits per byte, high digit first
HexEncode(bytes) ==
    [i \in 1..(2 * Len(bytes)) |->
        IF i % 2 = 1 THEN bytes[(i + 1) \div 2] \div 16 ELSE bytes[i \div 2] % 16]

-----------------------------------------------------------------------------
(* zlib framing.  The stream is modelled as a zlib header, one stored       *)
(* DEFLATE block and the Adler-32 trailer: a stream the decoder inflates    *)
(* back to the input, and that differs from the input.                      *)

\* the sum of the bytes lo..hi of s, each times its weight: 1, or the number
\* of bytes from it to the end of s
RECURSIVE AdlerSum(_, _, _, _)
AdlerSum(s, lo, hi, weighted) ==
    IF lo > hi THEN 0
    ELSE IF lo = hi THEN (IF weighted THEN (Len(s) - lo + 1) * s[lo] ELSE s[lo])
    ELSE AdlerSum(s, lo, (lo + hi) \div 2, weighted)
            + AdlerSum(s, ((lo + hi) \div 2) + 1, hi, weighted)

\* Adler-32: a is 1 plus the sum of the bytes, b is the sum of the values a
\* takes after each byte, both modulo 65521; the bytes of b, then of a
Adler32(s) ==
    LET a == (1 + AdlerSum(s, 1, Len(s), FALSE)) % 65521
        b == (Len(s) + AdlerSum(s, 1, Len(s), TRUE)) % 65521
    IN <<b \div 256, b % 256, a \div 256, a % 256>>

\* ZlibEncoder::new(writer, Compression::default()) ... try_finish()
Deflate(s) ==
    <<120, 156, 1, Len(s) % 256, Len(s) \div 256,
      255 - (Len(s) % 256), 255 - (Len(s) \div 256)>> \o s \o Adler32(s)

\* ZlibDecoder::read_to_end: the inflated bytes, or an I/O error
Inflate(z) ==
    IF Len(z) < 11 THEN [ok |-> FALSE, data |-> <<>>]
    ELSE LET n == z[4] + 256 * z[5]
             data == SubSeq(z, 8, 7 + n)
         IN IF /\ z[1] = 120 /\ z[2] = 156 /\ z[3] = 1
               /\ z[6] = 255 - z[4] /\ z[7] = 255 - z[5]
               /\ Len(z) = n + 11
               /\ SubSeq(z, 8 + n, Len(z)) = Adler32(data)
            THEN [ok |-> TRUE, data |-> data]
            ELSE [ok |-> FALSE, data |-> <<>>]

-----------------------------------------------------------------------------
(* The digest.  Sha1 is modelled by a 20-byte digest that is a function of  *)
(* its input alone and is collision-free on the inputs of the model; its    *)
(* leading digits take few values, so that abbreviated ids can be           *)
(* ambiguous, as they are in a large store.                                 *)

\* a * b modulo 2^20, without a product wider than 31 bits
MulMod(a, b) ==
    ((a % 1024) * b + (((a \div 1024) * (b % 1024)) % 1024) * 1024) % 1048576

\* feeding the bytes lo..hi of s takes the state h to (h * m + c) % 2^20; one
\* byte b takes h to (h * 131 + b + 1) % 2^20
RECURSIVE MixOf(_, _, _)
MixOf(s, lo, hi) ==
    IF lo > hi THEN [m |-> 1, c |-> 0]
    ELSE IF lo = hi THEN [m |-> 131, c |-> s[lo] + 1]
    ELSE LET l == MixOf(s, lo, (lo + hi) \div 2)
             r == MixOf(s, ((lo + hi) \div 2) + 1, hi)
         IN [m |-> MulMod(l.m, r.m), c |-> (MulMod(l.c, r.m) + r.c) % 1048576]

\* the state of the hasher once s was fed to it, from the state 1
Mix(s) == (MixOf(s, 1, Len(s)).m + MixOf(s, 1, Len(s)).c) % 1048576

Sha1(s) ==
    LET n == Mix(s)
    IN [i \in 1..20 |->
          CASE i = 1 -> n % 2
            [] i = 2 -> ((n \div 4) % 2) * 16
            [] i = 3 -> n \div 65536
            [] i = 4 -> (n \div 256) % 256
            [] i = 5 -> n % 256
            [] OTHER -> (n + 7 * i) % 256]

\* generate_hash of main.rs and HashObjectWriter::hash: hex of the digest
HexDigest(bytes) == HexEncode(Sha1(bytes))

-----------------------------------------------------------------------------
(* Encoding of an object.                                                  *)

\* main.rs hash_object: format!("{} {read}\0", args.obj_type)
obj_header(obj_type, read) ==
    KindBytes(obj_type) \o <<32>> \o DecimalBytes(read) \o <<0>>

\* hash_object.rs encode_content: format!("blob {}\0", len), whatever obj_type is
header(obj_type, len) ==
    KindBytes("blob") \o <<32>> \o DecimalBytes(len) \o <<0>>

\* hash_object.rs encode_content: the bytes the EncodingWriter hands to the
\* writer it wraps: the zlib stream of header and input
encode_content(obj_type, input) ==
    Deflate(header(obj_type, Len(input)) \o input)

\* HashObjectWriter: every buffer written goes to the hasher and to the
\* temporary file; hash() is the hex digest of what the hasher was fed
HashObjectWriter_hash(fed) == HexDigest(fed)

\* the two-level path of a hash: &hash[..2] and &hash[2..]
ObjectPath(hash) ==
    [dir |-> SubSeq(hash, 1, 2), name |-> SubSeq(hash, 3, Len(hash))]

\* a rename that adds the bytes to a file already at `to`
Rename_Append(files, to, bytes) ==
    [p \in (DOMAIN files) \cup {to} |->
        IF p # to THEN files[p]
        ELSE IF to \in DOMAIN files THEN files[to] \o bytes
        ELSE bytes]

\* fs::rename(from, to): the file at `to` is the renamed file, replacing any
\* file that was there
Rename(files, to, bytes) ==
    [p \in (DOMAIN files) \cup {to} |-> IF p = to THEN bytes ELSE files[p]]

-----------------------------------------------------------------------------
(* Resolution of an id and GitObject::read.                                *)

NoPath == [dir |-> <<>>, name |-> <<>>]

Resolved(p) == [ok |-> TRUE, err |-> "", path |-> p]
Unresolved(e) == [ok |-> FALSE, err |-> e, path |-> NoPath]

\* the files of directory dir_name whose name starts with id
Matches(dir_name, id) ==
    {p \in DOMAIN store : p.dir = dir_name /\ StartsWith(p.name, id)}

\* a find_object_file that returns the path it built when nothing matched
find_object_file_NoFoundCheck(obj_id) ==
    IF Len(obj_id) < 3 THEN {Unresolved("InvalidObjectId")}
    ELSE LET dir_name == SubSeq(obj_id, 1, 2)
             id == SubSeq(obj_id, 3, Len(obj_id))
             file == [dir |-> dir_name, name |-> id]
         IN IF dir_name \notin dirs THEN {Unresolved("InvalidObjectId")}
            ELSE IF file \in DOMAIN store THEN {Resolved(file)}
            ELSE IF Matches(dir_name, id) = {} THEN {Resolved(file)}
            ELSE {Resolved(p) : p \in Matches(dir_name, id)}

\* util.rs find_object_file: the outcomes it can produce in the current
\* store.  The scan stops at the first entry of read_dir that matches, and
\* read_dir yields the entries in no particular order.
find_object_file(obj_id) ==
    IF Len(obj_id) < 3 THEN {Unresolved("InvalidObjectId")}
    ELSE LET dir_name == SubSeq(obj_id, 1, 2)
             id == SubSeq(obj_id, 3, Len(obj_id))
             file == [dir |-> dir_name, name |-> id]
         IN IF dir_name \notin dirs THEN {Unresolved("InvalidObjectId")}
            ELSE IF file \in DOMAIN store THEN {Resolved(file)}
            ELSE IF Matches(dir_name, id) = {} THEN {Unresolved("InvalidObjectId")}
            ELSE {Resolved(p) : p \in Matches(dir_name, id)}

Failed(e) ==
    [ok |-> FALSE, err |-> e, kind |-> "", sha1 |-> <<>>, size |-> 0, body |-> <<>>]

\* a split at the last NUL byte
SplitIndex_Last(contents) == LastIndex(contents, 0)

\* contents.splitn(2, |b| *b == 0): the index the contents are split at
SplitIndex(contents) == FirstIndex(contents, 0)

\* object.rs get_object_header: the type and the length of "<type> <len>"
get_object_header(content) ==
    LET sp == FirstIndex(content, 32)
    IN IF sp = 0 THEN [ok |-> FALSE, err |-> "panic", obj_type |-> <<>>, size |-> 0]
       ELSE LET n == u8_slice_to_usize(SubSeq(content, sp + 1, Len(content)))
            IN IF n < 0
               THEN [ok |-> FALSE, err |-> "ReadObjectError", obj_type |-> <<>>, size |-> 0]
               ELSE [ok |-> TRUE, err |-> "", obj_type |-> SubSeq(content, 1, sp - 1),
                     size |-> n]

\* impl From<&str> for GitObjectType: "" stands for the panic
GitObjectType(value) ==
    IF value = KindBytes("blob") THEN "blob"
    ELSE IF value = KindBytes("tree") THEN "tree"
    ELSE IF value = KindBytes("commit") THEN "commit"
    ELSE ""

\* a sha1 field that repeats the id asked for
ReadSha1_Input(obj_id, path) == obj_id

\* the sha1 field of the object read: directory name, then file name
ReadSha1(obj_id, path) == path.dir \o path.name

\* object.rs GitObject::read, from the bytes of the file at the resolved path
Decode(obj_id, path, bytes) ==
    LET inflated == Inflate(bytes)
        contents == inflated.data
        nul == SplitIndex(contents)
        hdr == get_object_header(SubSeq(contents, 1, nul - 1))
    IN IF ~inflated.ok THEN Failed("Io")
       ELSE IF nul = 0 THEN Failed("panic")
       ELSE IF ~hdr.ok THEN Failed(hdr.err)
       ELSE IF GitObjectType(hdr.obj_type) = "" THEN Failed("panic")
       ELSE [ok |-> TRUE, err |-> "",
             kind |-> GitObjectType(hdr.obj_type),
             sha1 |-> ReadSha1(obj_id, path),
             size |-> hdr.size,
             body |-> SubSeq(contents, nul + 1, Len(contents))]

\* object.rs GitObject::read, once find_object_file has returned f: the
\* error of find_object_file, the error of File::open, or the decoded file
GitObject_read(obj_id, f) ==
    IF ~f.ok THEN Failed(f.err)
    ELSE IF f.path \notin DOMAIN store THEN Failed("Io")
    ELSE Decode(obj_id, f.path, store[f.path])

-----------------------------------------------------------------------------
(* The commands, one action per handler.                                   *)

EmptyFiles == [p \in {} |-> <<>>]

NoOut == [op |-> "none"]

\* the processes of the concurrent specifications; they stay idle under Spec
Writers == {"w1", "w2"}
Readers == {"r1"}

Init ==
    /\ dirs = {}
    /\ store = EmptyFiles
    /\ tmp = EmptyFiles
    /\ written = {}
    /\ out = NoOut
    /\ wpc = [w \in Writers |-> "idle"]
    /\ wbody = [w \in Writers |-> <<>>]
    /\ whash = [w \in Writers |-> <<>>]
    /\ rpc = [r \in Readers |-> "idle"]
    /\ rid = [r \in Readers |-> <<>>]
    /\ rpath = [r \in Readers |-> NoPath]
    /\ rseen = [r \in Readers |-> <<>>]

\* a hash_object that renames the temporary file to the object path whether
\* write_to_db is given or not
hash_object_AlwaysRenames(obj_type, input, write_to_db) ==
    LET stream == encode_content(obj_type, input)
        hash == HashObjectWriter_hash(stream)
        to == ObjectPath(hash)
        again == \E w \in written : w.kind = obj_type /\ w.body = input
    IN  /\ again \/ Cardinality(written) < MaxObjects
        /\ dirs' = dirs \cup {to.dir}
        /\ store' = Rename(store, to, stream)
        /\ written' = written \cup
              {[kind |-> obj_type, body |-> input, hash |-> hash]}
        /\ out' = [op |-> "hash-object", kind |-> obj_type, body |-> input,
                   hash |-> hash, wrote |-> write_to_db, again |-> again]
        /\ UNCHANGED <<tmp, procVars>>

\* hash_object.rs hash_object: encode the input through the hashing writer
\* into a temporary file; with write_to_db, create the directory and rename
\* the temporary file to the object path; report the hash.  The temporary
\* file is gone when the handler returns (renamed, or removed on drop).
hash_object(obj_type, input, write_to_db) ==
    LET stream == encode_content(obj_type, input)
        hash == HashObjectWriter_hash(stream)
        to == ObjectPath(hash)
        again == \E w \in written : w.kind = obj_type /\ w.body = input
    IN  /\ write_to_db => (again \/ Cardinality(written) < MaxObjects)
        /\ IF write_to_db
           THEN /\ dirs' = dirs \cup {to.dir}
                /\ store' = Rename(store, to, stream)
                /\ written' = written \cup
                      {[kind |-> obj_type, body |-> input, hash |-> hash]}
           ELSE UNCHANGED <<dirs, store, written>>
        /\ out' = [op |-> "hash-object", kind |-> obj_type, body |-> input,
                   hash |-> hash, wrote |-> write_to_db, again |-> again]
        /\ UNCHANGED <<tmp, procVars>>

\* hash_object_command: git hash-object [-w] <file>, blobs only
HashObjectCommand ==
    \E input \in Bodies, write_to_db \in BOOLEAN :
        hash_object("blob", input, write_to_db)

\* write_tree: the serialized entries go to hash_object as a "tree"
WriteTreeObject ==
    \E entries \in OtherBodies : hash_object("tree", entries, TRUE)

\* commit_tree_command: the commit text goes to hash_object as a "commit"
CommitTreeObject ==
    \E commit \in OtherBodies : hash_object("commit", commit, TRUE)

\* the hashes hash-object can report for the blobs of the model
BlobHashes == {HashObjectWriter_hash(encode_content("blob", b)) : b \in Bodies}

\* ids asked for: full hashes, abbreviations of them, and an id of no object
ReadIds ==
    {SubSeq(h, 1, n) : h \in BlobHashes, n \in {1, 2, 3, 5, HashLen}}
        \cup {<<15, 15, 15>>}

\* a command that reads one object: GitObject::read(obj_id)
ReadObject ==
    \E obj_id \in ReadIds :
        \E f \in find_object_file(obj_id) :
            /\ out' = [op |-> "read", id |-> obj_id, found |-> f,
                       res |-> GitObject_read(obj_id, f)]
            /\ UNCHANGED <<fsVars, written, procVars>>

Next ==
    \/ HashObjectCommand
    \/ WriteTreeObject
    \/ CommitTreeObject
    \/ ReadObject

Spec == Init /\ [][Next]_vars

-----------------------------------------------------------------------------
(* Concurrent writers and readers, one action per step that another         *)
(* process can observe.  SpecRename: writers run hash_object of             *)
(* commands/hash_object.rs.  SpecInPlace: writers run hash_object and       *)
(* write_object of main.rs.  Readers run GitObject::read.                   *)

\* the part of a stream that one write call puts in the file before the rest
FirstPart(stream) == SubSeq(stream, 1, Len(stream) \div 2)
RestPart(stream) == SubSeq(stream, (Len(stream) \div 2) + 1, Len(stream))

IsPrefix(p, s) == StartsWith(s, p)

Remove(files, name) == [p \in (DOMAIN files) \ {name} |-> files[p]]

\* a temporary file name shared by all writers
TempName_Shared(w) == "rg.tmp"

\* make_temp_file: Builder::new().prefix("rg").suffix(".tmp").tempfile()
\* creates a file of a name no other file has
TempName(w) == w

\* the stream and the hash of writer w under hash_object.rs
WStream(w) == encode_content("blob", wbody[w])
WHash(w) == HashObjectWriter_hash(WStream(w))

\* hash_object.rs:67 make_temp_file, for an input chosen by the caller
WBegin(w) ==
    /\ wpc[w] = "idle"
    /\ \E input \in Bodies : wbody' = [wbody EXCEPT ![w] = input]
    /\ tmp' = Rename(tmp, TempName(w), <<>>)
    /\ wpc' = [wpc EXCEPT ![w] = "encode"]
    /\ UNCHANGED <<dirs, store, written, out, whash, rpc, rid, rpath, rseen>>

\* a writer that puts the first part of the stream at the object path
WEncode_InPlace(w) ==
    /\ wpc[w] = "encode"
    /\ store' = Rename(store, ObjectPath(WHash(w)), FirstPart(WStream(w)))
    /\ dirs' = dirs \cup {ObjectPath(WHash(w)).dir}
    /\ wpc' = [wpc EXCEPT ![w] = "finalize"]
    /\ UNCHANGED <<tmp, written, out, wbody, whash, rpc, rid, rpath, rseen>>

\* hash_object.rs:71 encode_content: the first bytes reach the temporary file
WEncode(w) ==
    /\ wpc[w] = "encode"
    /\ TempName(w) \in DOMAIN tmp
    /\ tmp' = [tmp EXCEPT ![TempName(w)] = @ \o FirstPart(WStream(w))]
    /\ wpc' = [wpc EXCEPT ![w] = "finalize"]
    /\ UNCHANGED <<dirs, store, written, out, wbody, whash, rpc, rid, rpath, rseen>>

\* hash_object.rs:99 finalize, :73 hash: the rest of the stream reaches the
\* temporary file, and the hasher has been fed the stream
WFinalize(w) ==
    /\ wpc[w] = "finalize"
    /\ TempName(w) \in DOMAIN tmp
    /\ tmp' = [tmp EXCEPT ![TempName(w)] = @ \o RestPart(WStream(w))]
    /\ whash' = [whash EXCEPT ![w] = WHash(w)]
    /\ wpc' = [wpc EXCEPT ![w] = "mkdir"]
    /\ UNCHANGED <<dirs, store, written, out, wbody, rpc, rid, rpath, rseen>>

\* hash_object.rs:76-77 fs::create_dir_all(&obj_dir)
WCreateDir(w) ==
    /\ wpc[w] = "mkdir"
    /\ dirs' = dirs \cup {ObjectPath(whash[w]).dir}
    /\ wpc' = [wpc EXCEPT ![w] = "rename"]
    /\ UNCHANGED <<store, tmp, written, out, wbody, whash, rpc, rid, rpath, rseen>>

\* hash_object.rs:78-81 fs::rename(from, to), then the hash is reported
WRename(w) ==
    /\ wpc[w] = "rename"
    /\ TempName(w) \in DOMAIN tmp
    /\ store' = Rename(store, ObjectPath(whash[w]), tmp[TempName(w)])
    /\ tmp' = Remove(tmp, TempName(w))
    /\ written' = written \cup
          {[kind |-> "blob", body |-> wbody[w], hash |-> whash[w]]}
    /\ wpc' = [wpc EXCEPT ![w] = "done"]
    /\ UNCHANGED <<dirs, out, wbody, whash, rpc, rid, rpath, rseen>>

\* hash_object.rs:81 fs::rename(from, to)? returns an error (the temporary
\* directory is on another file system, or the temporary file is gone); the
\* NamedTempFile is dropped, which removes the temporary file
WRenameFails(w) ==
    /\ wpc[w] = "rename"
    /\ tmp' = Remove(tmp, TempName(w))
    /\ wpc' = [wpc EXCEPT ![w] = "failed"]
    /\ UNCHANGED <<dirs, store, written, out, wbody, whash, rpc, rid, rpath, rseen>>

\* the writer process is interrupted before its rename: nothing more runs,
\* the temporary file stays
WKill(w) ==
    /\ wpc[w] \in {"encode", "finalize", "mkdir", "rename"}
    /\ wpc' = [wpc EXCEPT ![w] = "killed"]
    /\ UNCHANGED <<dirs, store, tmp, written, out, wbody, whash, rpc, rid, rpath, rseen>>

\* main.rs generate_hash
generate_hash(buf) == HexDigest(buf)

\* main.rs encode_obj_content
encode_obj_content(content) == Deflate(content)

\* main.rs hash_object: the buffer of header and input
MBuf(w) == obj_header("blob", Len(wbody[w])) \o wbody[w]

\* a write of chunk at byte offset off of a file
WriteAt(file, off, chunk) ==
    [i \in 1..(IF Len(file) > off + Len(chunk) THEN Len(file) ELSE off + Len(chunk)) |->
        IF i > off /\ i <= off + Len(chunk) THEN chunk[i - off]
        ELSE IF i <= Len(file) THEN file[i]
        ELSE 0]

\* main.rs:214-223 hash_object: read the input, hash and encode the buffer
MBegin(w) ==
    /\ wpc[w] = "idle"
    /\ \E input \in Bodies :
          /\ wbody' = [wbody EXCEPT ![w] = input]
          /\ whash' = [whash EXCEPT ![w] =
                generate_hash(obj_header("blob", Len(input)) \o input)]
    /\ wpc' = [wpc EXCEPT ![w] = "mkdir"]
    /\ UNCHANGED <<dirs, store, tmp, written, out, rpc, rid, rpath, rseen>>

\* main.rs:253 fs::create_dir_all(full_dir)
MCreateDir(w) ==
    /\ wpc[w] = "mkdir"
    /\ dirs' = dirs \cup {ObjectPath(whash[w]).dir}
    /\ wpc' = [wpc EXCEPT ![w] = "create"]
    /\ UNCHANGED <<store, tmp, written, out, wbody, whash, rpc, rid, rpath, rseen>>

\* main.rs:257 File::create(file_path): the file exists and is empty
MCreate(w) ==
    /\ wpc[w] = "create"
    /\ store' = Rename(store, ObjectPath(whash[w]), <<>>)
    /\ wpc' = [wpc EXCEPT ![w] = "write"]
    /\ UNCHANGED <<dirs, tmp, written, out, wbody, whash, rpc, rid, rpath, rseen>>

\* main.rs:258 file.write_all(encoded): the first write call
MWrite(w) ==
    /\ wpc[w] = "write"
    /\ store' = [store EXCEPT ![ObjectPath(whash[w])] =
          WriteAt(@, 0, FirstPart(encode_obj_content(MBuf(w))))]
    /\ wpc' = [wpc EXCEPT ![w] = "write2"]
    /\ UNCHANGED <<dirs, tmp, written, out, wbody, whash, rpc, rid, rpath, rseen>>

\* main.rs:258 file.write_all(encoded): the last write call, then the hash
\* is reported
MWriteRest(w) ==
    /\ wpc[w] = "write2"
    /\ store' = [store EXCEPT ![ObjectPath(whash[w])] =
          WriteAt(@, Len(FirstPart(encode_obj_content(MBuf(w)))),
                  RestPart(encode_obj_content(MBuf(w))))]
    /\ written' = written \cup
          {[kind |-> "blob", body |-> wbody[w], hash |-> whash[w]]}
    /\ wpc' = [wpc EXCEPT ![w] = "done"]
    /\ UNCHANGED <<dirs, tmp, out, wbody, whash, rpc, rid, rpath, rseen>>

\* main.rs:258 file.write_all(encoded)? returns an error (the disk is full,
\* the process is interrupted): the file stays as the write calls left it
MWriteFails(w) ==
    /\ wpc[w] \in {"write", "write2"}
    /\ wpc' = [wpc EXCEPT ![w] = "failed"]
    /\ UNCHANGED <<dirs, store, tmp, written, out, wbody, whash, rpc, rid, rpath, rseen>>

\* the hashes main.rs reports for the blobs of the model
MainBlobHashes ==
    {generate_hash(obj_header("blob", Len(b)) \o b) : b \in Bodies}

\* object.rs:18 a reader asks for the full hash of an object
RBegin(r) ==
    /\ rpc[r] = "idle"
    /\ \E obj_id \in BlobHashes \cup MainBlobHashes :
          rid' = [rid EXCEPT ![r] = obj_id]
    /\ rpc' = [rpc EXCEPT ![r] = "find"]
    /\ UNCHANGED <<fsVars, written, out, wpc, wbody, whash, rpath, rseen>>

\* object.rs:19 find_object_file(obj_id)?
RFind(r) ==
    /\ rpc[r] = "find"
    /\ \E f \in find_object_file(rid[r]) :
          /\ rpath' = [rpath EXCEPT ![r] = f.path]
          /\ rpc' = [rpc EXCEPT ![r] = IF f.ok THEN "open" ELSE "notfound"]
    /\ UNCHANGED <<fsVars, written, out, wpc, wbody, whash, rid, rseen>>

\* object.rs:20-21 File::open(path) and read_to_end: the bytes of the file
ROpen(r) ==
    /\ rpc[r] = "open"
    /\ rpath[r] \in DOMAIN store
    /\ rseen' = [rseen EXCEPT ![r] = store[rpath[r]]]
    /\ rpc' = [rpc EXCEPT ![r] = "read"]
    /\ UNCHANGED <<fsVars, written, out, wpc, wbody, whash, rid, rpath>>

\* GitObject::read returns
RReturn(r) ==
    /\ rpc[r] \in {"read", "notfound"}
    /\ rpc' = [rpc EXCEPT ![r] = "idle"]
    /\ rid' = [rid EXCEPT ![r] = <<>>]
    /\ rpath' = [rpath EXCEPT ![r] = NoPath]
    /\ rseen' = [rseen EXCEPT ![r] = <<>>]
    /\ UNCHANGED <<fsVars, written, out, wpc, wbody, whash>>

NextRename ==
    \/ \E w \in Writers : WBegin(w)
    \/ \E w \in Writers : WEncode(w)
    \/ \E w \in Writers : WFinalize(w)
    \/ \E w \in Writers : WCreateDir(w)
    \/ \E w \in Writers : WRename(w)
    \/ \E w \in Writers : WRenameFails(w)
    \/ \E w \in Writers : WKill(w)
    \/ \E r \in Readers : RBegin(r)
    \/ \E r \in Readers : RFind(r)
    \/ \E r \in Readers : ROpen(r)
    \/ \E r \in Readers : RReturn(r)

SpecRename == Init /\ [][NextRename]_vars

NextInPlace ==
    \/ \E w \in Writers : MBegin(w)
    \/ \E w \in Writers : MCreateDir(w)
    \/ \E w \in Writers : MCreate(w)
    \/ \E w \in Writers : MWrite(w)
    \/ \E w \in Writers : MWriteRest(w)
    \/ \E w \in Writers : MWriteFails(w)
    \/ \E r \in Readers : RBegin(r)
    \/ \E r \in Readers : RFind(r)
    \/ \E r \in Readers : ROpen(r)
    \/ \E r \in Readers : RReturn(r)

SpecInPlace == Init /\ [][NextInPlace]_vars

-----------------------------------------------------------------------------
(* Properties of the store under Spec.                                      *)

\* the object files whose id starts with id
StoredWithPrefix(id) == {p \in DOMAIN store : StartsWith(p.dir \o p.name, id)}

\* C1: the hash that hash-object returns, and under which it stores the
\* object, is the digest of the uncompressed bytes "<kind> <len>\0" followed
\* by the body, never a digest of the compressed stream.
C1_HashOfUncompressed ==
    out.op = "hash-object" =>
        /\ out.hash = HexDigest(obj_header(out.kind, Len(out.body)) \o out.body)
        /\ out.wrote => ObjectPath(out.hash) \in DOMAIN store

\* C2: after hash-object -w of a blob b returned hash h, a read of h succeeds
\* with kind blob, size Len(b) and body b, also when b holds NUL bytes.
C2_RoundTrip ==
    out.op = "read" =>
        \A w \in written :
            (w.kind = "blob" /\ out.id = w.hash) =>
                /\ out.res.ok
                /\ out.res.kind = "blob"
                /\ out.res.size = Len(w.body)
                /\ out.res.body = w.body

C2_Witness ==
    /\ out.op = "read"
    /\ out.res.ok
    /\ \E w \in written :
          /\ w.kind = "blob"
          /\ out.id = w.hash
          /\ w.body # <<>>
          /\ w.body[1] = 0

\* C3: an object written with kind k reads back with kind k, for blob, tree
\* and commit.
C3_KindReadBack ==
    out.op = "read" =>
        \A w \in written :
            (out.id = w.hash /\ out.res.ok) => out.res.kind = w.kind

\* C4: a read of an id of 3 to 39 characters that is a prefix of the hashes
\* of two stored objects fails with InvalidObjectId, and a read of the full
\* hash of a stored object succeeds.
C4_AmbiguousPrefix ==
    out.op = "read" =>
        /\ (/\ Len(out.id) >= 3
            /\ Len(out.id) < HashLen
            /\ Cardinality(StoredWithPrefix(out.id)) >= 2)
              => (~out.res.ok /\ out.res.err = "InvalidObjectId")
        /\ (Len(out.id) = HashLen /\ ObjectPath(out.id) \in DOMAIN store)
              => out.res.ok

C9_ReadSha1IsFullId ==
    (out.op = "read" /\ out.res.ok) =>
        /\ Len(out.res.sha1) = HashLen
        /\ StartsWith(out.res.sha1, out.id)
        /\ out.res.sha1 = out.found.path.dir \o out.found.path.name
        /\ ObjectPath(out.res.sha1) \in DOMAIN store

C9_Witness ==
    /\ out.op = "read"
    /\ out.res.ok
    /\ Len(out.id) < HashLen
    /\ Len(out.res.sha1) = HashLen

\* C10: resolving an id shorter than 3 characters, or whose directory is
\* absent, or whose remainder is a prefix of no file name of the directory,
\* fails with InvalidObjectId and yields no path.
C10_UnresolvableId ==
    out.op = "read" =>
        ((\/ Len(out.id) < 3
          \/ SubSeq(out.id, 1, 2) \notin dirs
          \/ Matches(SubSeq(out.id, 1, 2), SubSeq(out.id, 3, Len(out.id))) = {})
            => /\ ~out.found.ok
               /\ out.found.err = "InvalidObjectId"
               /\ out.found.path = NoPath
               /\ ~out.res.ok
               /\ out.res.err = "InvalidObjectId")

C10_Witness ==
    /\ out.op = "read"
    /\ Len(out.id) >= 3
    /\ SubSeq(out.id, 1, 2) \in dirs
    /\ Matches(SubSeq(out.id, 1, 2), SubSeq(out.id, 3, Len(out.id))) = {}
    /\ ~out.found.ok

-----------------------------------------------------------------------------
(* Properties of concurrent writers and readers.                            *)

\* the bytes are a complete zlib stream of an object of the model
CompleteObject(bytes) ==
    /\ Inflate(bytes).ok
    /\ \E b \in Bodies : Inflate(bytes).data = obj_header("blob", Len(b)) \o b

\* C6: a reader of an object's hash finds the object path absent or holding
\* the complete compressed object: the bytes a reader has read from an
\* object path are never a partially written object.
C6_NoPartialObject ==
    \A r \in Readers : rpc[r] = "read" => CompleteObject(rseen[r])

\* C7: once a writer is done, the path of its hash holds exactly the
\* complete encoded bytes of its object, whatever the other writer did; the
\* temporary file of a writer holds bytes of its own stream only, and
\* writers of different objects have different temporary files and paths.
C7_ConcurrentWrites ==
    /\ \A w \in Writers :
          wpc[w] = "done" =>
              /\ ObjectPath(whash[w]) \in DOMAIN store
              /\ store[ObjectPath(whash[w])] = encode_content("blob", wbody[w])
    /\ \A w \in Writers :
          wpc[w] \in {"encode", "finalize", "mkdir", "rename"} =>
              /\ TempName(w) \in DOMAIN tmp
              /\ IsPrefix(tmp[TempName(w)], WStream(w))
    /\ \A w1, w2 \in Writers :
          (w1 # w2 /\ wpc[w1] # "idle" /\ wpc[w2] # "idle"
             /\ wbody[w1] # wbody[w2]) =>
              /\ TempName(w1) # TempName(w2)
              /\ ObjectPath(WHash(w1)) # ObjectPath(WHash(w2))

C7_Witness ==
    /\ \A w \in Writers : wpc[w] = "done"
    /\ wbody["w1"] = wbody["w2"]
    /\ ObjectPath(whash["w1"]) \in DOMAIN store

\* C8: a write interrupted before its rename leaves no file at the path of
\* its object (a file there was renamed in by another, completed write of
\* the same object), and every object in the store is as it was written.
C8_InterruptedWrite ==
    \A w \in Writers :
        wpc[w] = "killed" =>
            /\ ObjectPath(WHash(w)) \in DOMAIN store =>
                  \E w2 \in Writers \ {w} :
                      wpc[w2] = "done" /\ wbody[w2] = wbody[w]
            /\ \A x \in written :
                  /\ ObjectPath(x.hash) \in DOMAIN store
                  /\ store[ObjectPath(x.hash)] = encode_content(x.kind, x.body)
            /\ DOMAIN store = {ObjectPath(x.hash) : x \in written}

C8_Witness ==
    \E w \in Writers :
        /\ wpc[w] = "killed"
        /\ \E w2 \in Writers \ {w} : wpc[w2] = "done" /\ wbody[w2] # wbody[w]
        /\ ObjectPath(WHash(w)) \notin DOMAIN store

-----------------------------------------------------------------------------
(* The time zone of the author and committer lines.                         *)

\* i32 division and remainder of Rust: the quotient is rounded towards zero
\* and the remainder has the sign of the dividend
TruncDiv(a, b) == IF a >= 0 THEN a \div b ELSE -((-a) \div b)
TruncRem(a, b) == a - b * TruncDiv(a, b)

\* format!("{:+}", n): the sign, always, and the decimal digits
FormatSigned(n) ==
    IF n < 0 THEN <<45>> \o DecimalBytes(-n) ELSE <<43>> \o DecimalBytes(n)

\* format!("{:02}", n): at least two characters, the sign counted, zeros
\* after the sign
FormatWidth2(n) ==
    IF n < 0 THEN <<45>> \o DecimalBytes(-n)
    ELSE IF n < 10 THEN <<48>> \o DecimalBytes(n)
    ELSE DecimalBytes(n)

\* commit_tree.rs get_tz, from offset.local_minus_utc() in seconds
get_tz(local_offset) ==
    FormatSigned(TruncDiv(local_offset, 3600))
        \o FormatWidth2(TruncDiv(TruncRem(local_offset, 3600), 60))

\* the local offsets from -12:00 to +14:00, a quarter of an hour apart
QuarterHour == 900
Offsets == {QuarterHour * k : k \in (-48)..56}

-----------------------------------------------------------------------------
(* Commit objects: the text commit-tree builds and Commit::from parses.     *)

\* the hex digits of an id as the ASCII characters of a String
HexChars(id) == [i \in 1..Len(id) |-> IF id[i] < 10 THEN 48 + id[i] ELSE 87 + id[i]]

\* the hex digits of a String that names an object; 16 stands for a
\* character that is no hex digit
HexDigits(str) ==
    [i \in 1..Len(str) |->
        IF str[i] >= 48 /\ str[i] <= 57 THEN str[i] - 48
        ELSE IF str[i] >= 97 /\ str[i] <= 102 THEN str[i] - 87
        ELSE 16]

IsSpace(b) == b \in {9, 10, 11, 12, 13, 32}

\* str::trim: without leading and trailing white space
RECURSIVE TrimStart(_)
TrimStart(s) ==
    IF s # <<>> /\ IsSpace(s[1]) THEN TrimStart(SubSeq(s, 2, Len(s))) ELSE s

RECURSIVE TrimEnd(_)
TrimEnd(s) ==
    IF s # <<>> /\ IsSpace(s[Len(s)]) THEN TrimEnd(SubSeq(s, 1, Len(s) - 1)) ELSE s

Trim(s) == TrimEnd(TrimStart(s))

\* the keywords of the header lines of a commit
KeywordBytes(name) ==
    CASE name = "tree" -> <<116, 114, 101, 101>>
      [] name = "parent" -> <<112, 97, 114, 101, 110, 116>>
      [] name = "author" -> <<97, 117, 116, 104, 111, 114>>
      [] name = "committer" -> <<99, 111, 109, 109, 105, 116, 116, 101, 114>>

\* format!("{} <{}> {} {}", name, email, epoch, tz) of the author: name "a",
\* email "e", epoch 1, in a time zone of offset 0
AuthorIdent == <<97, 32, 60, 101, 62, 32, 49, 32>> \o get_tz(0)
\* ... and of the committer, of name "c"
CommitterIdent == <<99, 32, 60, 101, 62, 32, 49, 32>> \o get_tz(0)
\* the message given with -m: "m"
Message == <<109>>

\* the hashes named by the commits of the model
TreeHash == HexDigest(obj_header("tree", 0))
ParentHash == HexDigest(obj_header("commit", 0))

\* one header line: format!("<keyword> {}\n", value)
HeaderLine(name, value) == KeywordBytes(name) \o <<32>> \o value \o <<10>>

\* the value commit_tree_command writes for a keyword
LineValue(name) ==
    CASE name = "tree" -> HexChars(TreeHash)
      [] name = "parent" -> HexChars(ParentHash)
      [] name = "author" -> AuthorIdent
      [] name = "committer" -> CommitterIdent

RECURSIVE HeaderLines(_)
HeaderLines(names) ==
    IF names = <<>> THEN <<>>
    ELSE HeaderLine(names[1], LineValue(names[1])) \o HeaderLines(Tail(names))

\* commit_tree.rs:50-84: the text of a commit: tree, parent if given, author,
\* committer, an empty line, the message if given
commit_text(tree_hash, parent, message) ==
    HeaderLine("tree", HexChars(tree_hash))
        \o (IF parent = <<>> THEN <<>> ELSE HeaderLine("parent", HexChars(parent)))
        \o HeaderLine("author", AuthorIdent)
        \o HeaderLine("committer", CommitterIdent)
        \o <<10>>
        \o (IF message = <<>> THEN <<>> ELSE message \o <<10>>)

NoEntry(next) == [some |-> FALSE, panic |-> FALSE, val |-> <<>>, next |-> next]

\* commit.rs get_entry: read one line; if the text before its first space is
\* the keyword, the trimmed rest of the line; None otherwise.  The line is
\* consumed in both cases.  A line that is the keyword alone has no rest:
\* n.next().unwrap() panics.
get_entry(body, pos, name) ==
    LET nl == FirstIndexFrom(body, 10, pos)
        end == IF nl = 0 THEN Len(body) ELSE nl
        entry == SubSeq(body, pos, end)
        sp == FirstIndex(entry, 32)
        e == IF sp = 0 THEN entry ELSE SubSeq(entry, 1, sp - 1)
    IN IF e # KeywordBytes(name) THEN NoEntry(end + 1)
       ELSE IF sp = 0
       THEN [some |-> FALSE, panic |-> TRUE, val |-> <<>>, next |-> end + 1]
       ELSE [some |-> TRUE, panic |-> FALSE,
             val |-> Trim(SubSeq(entry, sp + 1, Len(entry))), next |-> end + 1]

CommitFailed(e) ==
    [ok |-> FALSE, err |-> e, tree |-> <<>>, has_parent |-> FALSE, parent |-> <<>>,
     author |-> <<>>, committer |-> <<>>, comment |-> <<>>]

\* commit.rs impl From<GitObject> for Commit: four calls of get_entry, each
\* on the line after the one the call before it read; a missing tree, author
\* or committer panics ("invalid commit object")
Commit_from(body) ==
    LET tree == get_entry(body, 1, "tree")
        parent == get_entry(body, tree.next, "parent")
        author == get_entry(body, parent.next, "author")
        committer == get_entry(body, author.next, "committer")
    IN IF ~tree.some THEN CommitFailed("panic")
       ELSE IF parent.panic THEN CommitFailed("panic")
       ELSE IF ~author.some THEN CommitFailed("panic")
       ELSE IF ~committer.some THEN CommitFailed("panic")
       ELSE [ok |-> TRUE, err |-> "", tree |-> tree.val,
             has_parent |-> parent.some, parent |-> parent.val,
             author |-> author.val, committer |-> committer.val,
             comment |-> SubSeq(body, committer.next, Len(body))]

\* the orders header lines can come in
Keywords == {"tree", "parent", "author", "committer"}
\* most header lines of a commit body
MaxHeaderLines == 4
LineOrders == SeqsUpTo(Keywords, MaxHeaderLines)

\* a commit body with its header lines in the given order
BodyOfOrder(names) == HeaderLines(names) \o <<10>> \o Message \o <<10>>

\* Commit::from(obj) applied to the body of a commit object
CommitFrom ==
    \E names \in LineOrders :
        /\ out' = [op |-> "commit-from", names |-> names,
                   body |-> BodyOfOrder(names),
                   res |-> Commit_from(BodyOfOrder(names))]
        /\ UNCHANGED <<fsVars, written, procVars>>

-----------------------------------------------------------------------------
(* GitObject::read of files that hold any inflated bytes.                   *)

\* the type names found in stored headers: the three kinds and "blub"
TypeNames == {KindBytes("blob"), KindBytes("tree"), KindBytes("commit"),
              <<98, 108, 117, 98>>}
\* the length fields found in stored headers: "0", "1", "2", "x" and ""
LengthFields == {<<48>>, <<49>>, <<50>>, <<120>>, <<>>}
\* the bodies found in stored files
StoredBodies == {<<>>, <<97>>, <<97, 0>>}

\* the inflated bytes of a stored file, from the parts it is made of
Contents(c) ==
    c.type \o (IF c.space THEN <<32>> ELSE <<>>) \o c.len
        \o (IF c.nul THEN <<0>> ELSE <<>>) \o c.body

ContentParts ==
    [type : TypeNames, space : BOOLEAN, len : LengthFields, nul : BOOLEAN,
     body : StoredBodies]

\* GitObject::read(hash) of one stored file that holds the zlib stream of
\* the contents, under the hash of the contents
ReadStored ==
    \E c \in ContentParts :
        LET hash == HexDigest(Contents(c))
        IN /\ out' = [op |-> "read-stored", parts |-> c,
                      res |-> Decode(hash, ObjectPath(hash), Deflate(Contents(c)))]
           /\ UNCHANGED <<fsVars, written, procVars>>

-----------------------------------------------------------------------------
(* The mode of a tree entry.                                                *)

\* the file type bits of st_mode
S_IFMT == 61440
S_IFDIR == 16384
S_IFREG == 32768
S_IFLNK == 40960

\* file types: fifo, character device, directory, block device, regular
\* file, symbolic link, socket
FileTypes == {4096, 8192, S_IFDIR, 24576, S_IFREG, S_IFLNK, 49152}
\* permission bits: 0644, 0755, 0600, 0664, 0444, 0777, 0700, 04755
Permissions == {420, 493, 384, 436, 292, 511, 448, 2541}
Modes == {t + p : t \in FileTypes, p \in Permissions}

\* format!("{:o}", n): octal ASCII digits, no leading zeros
RECURSIVE OctalBytes(_)
OctalBytes(n) ==
    IF n < 8 THEN <<48 + n>>
    ELSE OctalBytes(n \div 8) \o <<48 + (n % 8)>>

\* format!("{:0>6o}", n): padded on the left with '0' to six characters
RECURSIVE PadLeft(_, _)
PadLeft(s, width) == IF Len(s) >= width THEN s ELSE PadLeft(<<48>> \o s, width)

\* the number an octal string denotes
RECURSIVE OctalValue(_)
OctalValue(s) ==
    IF s = <<>> THEN 0 ELSE 8 * OctalValue(SubSeq(s, 1, Len(s) - 1)) + (s[Len(s)] - 48)

\* mode & 0o170000
TypeBits(mode) == ((mode \div 4096) % 16) * 4096

\* a mode_to_string that keeps the type bits alone, for every file type
mode_to_string_TypeOnly(mode) ==
    IF TypeBits(mode) \in {S_IFDIR, S_IFLNK, S_IFREG}
    THEN [panic |-> FALSE, str |-> PadLeft(OctalBytes(TypeBits(mode)), 5)]
    ELSE [panic |-> TRUE, str |-> <<>>]

\* write_tree.rs mode_to_string: the type alone for a directory or a symbolic
\* link, the whole mode for a regular file, a panic for anything else
mode_to_string(mode) ==
    IF TypeBits(mode) \in {S_IFDIR, S_IFLNK}
    THEN [panic |-> FALSE, str |-> OctalBytes(TypeBits(mode))]
    ELSE IF TypeBits(mode) = S_IFREG
    THEN [panic |-> FALSE, str |-> PadLeft(OctalBytes(mode), 6)]
    ELSE [panic |-> TRUE, str |-> <<>>]

\* write_tree.rs make_tree_entry: the entry of a name, from the mode of its
\* metadata and the hash of its object
make_tree_entry(name, raw_mode, sha1) ==
    [name |-> name, mode |-> mode_to_string(raw_mode).str, sha1 |-> sha1]

\* make_tree_entry applied to a directory entry of any mode
MakeTreeEntry ==
    \E raw_mode \in Modes :
        /\ out' = [op |-> "make-tree-entry", raw_mode |-> raw_mode,
                   panic |-> mode_to_string(raw_mode).panic,
                   entry |-> make_tree_entry(<<97>>, raw_mode, TreeHash)]
        /\ UNCHANGED <<fsVars, written, procVars>>

\* get_tz() in a time zone of any offset
GetTz ==
    \E local_offset \in Offsets :
        /\ out' = [op |-> "get-tz", local_offset |-> local_offset,
                   tz |-> get_tz(local_offset)]
        /\ UNCHANGED <<fsVars, written, procVars>>

NextParse ==
    \/ CommitFrom
    \/ ReadStored
    \/ MakeTreeEntry
    \/ GetTz

SpecParse == Init /\ [][NextParse]_vars

-----------------------------------------------------------------------------
(* write-tree: the working directory, the scan, the sort, the tree object.  *)
(* A directory is the sequence of its entries in the order read_dir yields  *)
(* them.  The entries of the model are regular files, directories and       *)
(* character devices; their names are valid or invalid UTF-8 of three bytes *)
(* or more, so that every slice the comparator takes ends on a character    *)
(* boundary.                                                                *)

\* util::GIT_DIR_NAME: ".git"
GIT_DIR_NAME == <<46, 103, 105, 116>>

\* file names: "foo.txt", "foo", "foo2", "a.txt", "sub", "bad", "dev", a
\* name that is the invalid byte 0xFF, and the name U+FFFD
Name_foo_txt == <<102, 111, 111, 46, 116, 120, 116>>
Name_foo == <<102, 111, 111>>
Name_foo2 == <<102, 111, 111, 50>>
Name_a_txt == <<97, 46, 116, 120, 116>>
Name_sub == <<115, 117, 98>>
Name_bad == <<98, 97, 100>>
Name_dev == <<100, 101, 118>>
Name_invalid == <<255>>
Name_replacement == <<239, 191, 189>>

\* the type bits of a character device
S_IFCHR == 8192

RegularFile(name, perm, content, opens) ==
    [name |-> name, type |-> "file", mode |-> S_IFREG + perm, content |-> content,
     kids |-> <<>>, opens |-> opens]
Directory(name, kids) ==
    [name |-> name, type |-> "dir", mode |-> S_IFDIR + 493, content |-> <<>>,
     kids |-> kids, opens |-> TRUE]
CharDevice(name) ==
    [name |-> name, type |-> "chardev", mode |-> S_IFCHR + 420, content |-> <<>>,
     kids |-> <<>>, opens |-> TRUE]
NoFile ==
    [name |-> <<>>, type |-> "none", mode |-> 0, content |-> <<>>,
     kids |-> <<>>, opens |-> FALSE]

\* the entries a directory of the model is made of
EntryPool ==
    {RegularFile(Name_foo_txt, 420, <<120>>, TRUE),
     Directory(Name_foo, <<RegularFile(Name_a_txt, 420, <<120>>, TRUE)>>),
     RegularFile(Name_foo2, 493, <<>>, TRUE),
     Directory(Name_sub, <<>>),
     RegularFile(Name_bad, 420, <<120>>, FALSE),
     Directory(Name_dev, <<Directory(Name_sub, <<RegularFile(Name_bad, 420, <<>>, FALSE)>>)>>),
     CharDevice(Name_dev),
     RegularFile(Name_invalid, 420, <<97>>, TRUE),
     RegularFile(Name_replacement, 420, <<120>>, TRUE),
     Directory(GIT_DIR_NAME, <<RegularFile(Name_a_txt, 420, <<120>>, TRUE)>>)}

\* most entries of the directory write-tree is run in, the directory of
\* FooEntries apart
MaxEntries == 2

\* the entries foo.txt (file), foo (directory) and foo2 (file)
FooEntries ==
    {RegularFile(Name_foo_txt, 420, <<120>>, TRUE),
     Directory(Name_foo, <<RegularFile(Name_a_txt, 420, <<120>>, TRUE)>>),
     RegularFile(Name_foo2, 493, <<>>, TRUE)}

\* the working directories: each order of each set of entries of distinct
\* names, and each order of the three entries of FooEntries
WorkTrees ==
    {d \in SeqsUpTo(EntryPool, MaxEntries) \cup [1..3 -> FooEntries] :
        \A i, j \in 1..Len(d) : i # j => d[i].name # d[j].name}

\* OsStr::to_string_lossy: an invalid byte becomes U+FFFD
RECURSIVE to_string_lossy(_)
to_string_lossy(name) ==
    IF name = <<>> THEN <<>>
    ELSE (IF name[1] = 255 THEN Name_replacement ELSE <<name[1]>>)
            \o to_string_lossy(Tail(name))

\* the file that path.join(&name) names in directory dir
Lookup(dir, name) ==
    IF \E i \in 1..Len(dir) : dir[i].name = name
    THEN dir[CHOOSE i \in 1..Len(dir) : dir[i].name = name]
    ELSE NoFile

\* Ord for byte strings: -1, 0 or 1
RECURSIVE CompareFrom(_, _, _)
CompareFrom(a, b, i) ==
    IF i > Len(a) /\ i > Len(b) THEN 0
    ELSE IF i > Len(a) THEN -1
    ELSE IF i > Len(b) THEN 1
    ELSE IF a[i] < b[i] THEN -1
    ELSE IF a[i] > b[i] THEN 1
    ELSE CompareFrom(a, b, i + 1)

CompareBytes(a, b) == CompareFrom(a, b, 1)

Min(a, b) == IF a < b THEN a ELSE b

\* the mode string of a directory entry
DirMode == <<52, 48, 48, 48, 48>>

\* write_tree.rs:62-84, the comparator of sort_by: the common-length
\* prefixes of the names, then the names with "/" after a directory's
compare_entries(x, y) ==
    LET common_len == Min(Len(x.name), Len(y.name))
        prefixes == CompareBytes(SubSeq(x.name, 1, common_len),
                                 SubSeq(y.name, 1, common_len))
        x_name == IF x.mode = DirMode THEN x.name \o <<47>> ELSE x.name
        y_name == IF y.mode = DirMode THEN y.name \o <<47>> ELSE y.name
    IN IF prefixes = 0 THEN CompareBytes(x_name, y_name) ELSE prefixes

\* one step of the stable sort: x goes after the entries that are not
\* greater than x
InsertEntry(sorted, x) ==
    LET k == Cardinality({i \in 1..Len(sorted) : compare_entries(sorted[i], x) <= 0})
    IN SubSeq(sorted, 1, k) \o <<x>> \o SubSeq(sorted, k + 1, Len(sorted))

\* Vec::sort_by with the comparator
RECURSIVE sort_by(_)
sort_by(entries) ==
    IF entries = <<>> THEN <<>>
    ELSE InsertEntry(sort_by(SubSeq(entries, 1, Len(entries) - 1)),
                     entries[Len(entries)])

\* hex::decode: one byte per two hex digits
hex_to_bytes(hex) ==
    [i \in 1..(Len(hex) \div 2) |-> 16 * hex[2 * i - 1] + hex[2 * i]]

\* write_tree.rs:86-92: "<mode> <name>\0" and the 20 bytes of the hash, for
\* each entry in turn
RECURSIVE SerializeEntries(_)
SerializeEntries(entries) ==
    IF entries = <<>> THEN <<>>
    ELSE entries[1].mode \o <<32>> \o entries[1].name \o <<0>>
            \o hex_to_bytes(entries[1].sha1) \o SerializeEntries(Tail(entries))

\* an object as hash_object stores it, with the directory it was made for
ObjectOf(kind, body, path) ==
    [kind |-> kind, body |-> body,
     hash |-> HashObjectWriter_hash(encode_content(kind, body)), path |-> path]

NoTreeEntry == [name |-> <<>>, mode |-> <<>>, sha1 |-> <<>>]

EntryFailed(e, objs, at) ==
    [ok |-> FALSE, err |-> e, objs |-> objs, entry |-> NoTreeEntry, failed_at |-> at]
EntryMade(entry, objs) ==
    [ok |-> TRUE, err |-> "", objs |-> objs, entry |-> entry, failed_at |-> <<>>]

\* a loop that drops a directory entry that failed and goes on
Try_SkipFailed(acc, r) ==
    IF r.ok
    THEN [acc EXCEPT !.entries = Append(@, r.entry), !.objs = @ \o r.objs]
    ELSE [acc EXCEPT !.objs = @ \o r.objs]

\* write_tree.rs:44-57: the `?` on the result of a directory entry, then
\* tree.entries.push(tree_entry).  What the entry wrote stays written.
Try(acc, r) ==
    IF r.ok
    THEN [acc EXCEPT !.entries = Append(@, r.entry), !.objs = @ \o r.objs]
    ELSE [acc EXCEPT !.err = r.err, !.failed_at = r.failed_at, !.objs = @ \o r.objs]

\* a file entry that names the hash of the file's blob without storing it
FileEntry_Unwritten(dir, path, entry, name) ==
    LET target == Lookup(dir, name)
        blob == ObjectOf("blob", target.content, path)
        made == mode_to_string(entry.mode)
    IN IF target.type \in {"none", "dir"} \/ ~target.opens
       THEN EntryFailed("Io", <<>>, path)
       ELSE IF made.panic THEN EntryFailed("panic", <<>>, path)
       ELSE EntryMade(make_tree_entry(name, entry.mode, blob.hash), <<>>)

\* write_tree.rs:52-54: open the file that path.join(&name) names, hash it as
\* a blob, make the entry from the metadata of the directory entry
FileEntry(dir, path, entry, name) ==
    LET target == Lookup(dir, name)
        blob == ObjectOf("blob", target.content, path)
        made == mode_to_string(entry.mode)
    IN IF target.type \in {"none", "dir"} \/ ~target.opens
       THEN EntryFailed("Io", <<>>, path)
       ELSE IF made.panic THEN EntryFailed("panic", <<blob>>, path)
       ELSE EntryMade(make_tree_entry(name, entry.mode, blob.hash), <<blob>>)

RECURSIVE write_tree(_, _)
RECURSIVE ScanFrom(_, _, _, _)

\* write_tree.rs:49-50: write the tree of the directory that path.join(&name)
\* names, make the entry from the metadata of the directory entry
SubdirEntry(dir, path, entry, name) ==
    LET target == Lookup(dir, name)
        sub == write_tree(target.kids, Append(path, name))
    IN IF target.type # "dir" THEN EntryFailed("Io", <<>>, path)
       ELSE IF ~sub.ok THEN EntryFailed(sub.err, sub.objs, sub.failed_at)
       ELSE EntryMade(make_tree_entry(name, entry.mode, sub.hash), sub.objs)

\* write_tree.rs:38-58: the loop over the entries of read_dir, from entry i
ScanFrom(dir, path, i, acc) ==
    IF acc.err # "" \/ i > Len(dir) THEN acc
    ELSE LET entry == dir[i]
             name == to_string_lossy(entry.name)
         IN IF entry.type = "dir" /\ name = GIT_DIR_NAME
            THEN ScanFrom(dir, path, i + 1, acc)
            ELSE IF entry.type = "dir"
            THEN ScanFrom(dir, path, i + 1, Try(acc, SubdirEntry(dir, path, entry, name)))
            ELSE ScanFrom(dir, path, i + 1, Try(acc, FileEntry(dir, path, entry, name)))

\* write_tree.rs:30-102 write_tree(path): the entries of the directory,
\* sorted, serialized and stored as a "tree"; the hash of the tree, the
\* objects written on the way, and where a failure happened
write_tree(dir, path) ==
    LET acc == ScanFrom(dir, path, 1,
                  [err |-> "", failed_at |-> <<>>, entries |-> <<>>, objs |-> <<>>])
        entries == sort_by(acc.entries)
        tree == ObjectOf("tree", SerializeEntries(entries), path)
    IN IF acc.err # ""
       THEN [ok |-> FALSE, err |-> acc.err, hash |-> <<>>, entries |-> <<>>,
             objs |-> acc.objs, failed_at |-> acc.failed_at]
       ELSE [ok |-> TRUE, err |-> "", hash |-> tree.hash, entries |-> entries,
             objs |-> Append(acc.objs, tree), failed_at |-> <<>>]

\* the object files after hash_object has stored each object in turn
RECURSIVE StoreAll(_, _)
StoreAll(files, objs) ==
    IF objs = <<>> THEN files
    ELSE StoreAll(Rename(files, ObjectPath(objs[1].hash),
                         encode_content(objs[1].kind, objs[1].body)),
                  Tail(objs))

Range(seq) == {seq[i] : i \in 1..Len(seq)}

\* write_tree_command: git write-tree in a working directory
WriteTreeCommand ==
    /\ Cardinality(written) < MaxObjects
    /\ \E dir \in WorkTrees :
          LET res == write_tree(dir, <<>>)
          IN /\ store' = StoreAll(store, res.objs)
             /\ dirs' = dirs \cup {ObjectPath(o.hash).dir : o \in Range(res.objs)}
             /\ written' = written \cup
                   {[kind |-> o.kind, body |-> o.body, hash |-> o.hash] :
                        o \in Range(res.objs)}
             /\ out' = [op |-> "write-tree", dir |-> dir, res |-> res]
    /\ UNCHANGED <<tmp, procVars>>

-----------------------------------------------------------------------------
(* ls-tree, tags, commit-tree, and hash-object -t of main.rs.               *)

\* main.rs hash_object with -w, the object type taken from the arguments
MainObject(obj_type, input) ==
    [kind |-> obj_type, body |-> input,
     hash |-> generate_hash(obj_header(obj_type, Len(input)) \o input)]

\* the objects hash-object -t <type> -w is given in the model: an empty
\* blob, a tree of that blob, an empty tree, a commit of the empty tree
\* without parent and one with a parent
MainBlob == MainObject("blob", <<>>)
MainTree ==
    MainObject("tree",
        SerializeEntries(<<[name |-> Name_a_txt,
                            mode |-> <<49, 48, 48, 54, 52, 52>>,
                            sha1 |-> MainBlob.hash]>>))
MainObjects ==
    {MainBlob, MainTree, MainObject("tree", <<>>),
     MainObject("commit", commit_text(TreeHash, <<>>, Message)),
     MainObject("commit", commit_text(TreeHash, ParentHash, Message))}

\* main.rs hash_object and write_object: git hash-object -t <type> -w <file>
MainHashObject ==
    /\ Cardinality(written) < MaxObjects
    /\ \E o \in MainObjects :
          /\ dirs' = dirs \cup {ObjectPath(o.hash).dir}
          /\ store' = Rename(store, ObjectPath(o.hash),
                             encode_obj_content(obj_header(o.kind, Len(o.body)) \o o.body))
          /\ written' = written \cup {o}
          /\ out' = [op |-> "main-hash-object", kind |-> o.kind, body |-> o.body,
                     hash |-> o.hash]
    /\ UNCHANGED <<tmp, procVars>>

\* GitObject::read(obj_id) of an id given as a String: its outcomes
ReadResults(obj_id) ==
    {GitObject_read(HexDigits(obj_id), f) : f \in find_object_file(HexDigits(obj_id))}

\* GitObject::read(hash) of the 40 digits of hex::encode(hash_buf): a full
\* hash resolves to the file of that name, or to nothing
ReadByHash(hash) ==
    GitObject_read(hash, CHOOSE f \in find_object_file(hash) : TRUE)

\* a get_tag that returns the content of the tag file as it is (util.rs:108)
get_tag_Untrimmed(tags, name) ==
    IF name \in DOMAIN tags
    THEN [some |-> TRUE, obj_id |-> tags[name]]
    ELSE [some |-> FALSE, obj_id |-> <<>>]

\* tag.rs Tag::get_tag: the trimmed content of the file refs/tags/<name>, or
\* None when the file cannot be opened
get_tag(tags, name) ==
    IF name \in DOMAIN tags
    THEN [some |-> TRUE, obj_id |-> Trim(tags[name])]
    ELSE [some |-> FALSE, obj_id |-> <<>>]

LsFailed(e) == [ok |-> FALSE, err |-> e, lines |-> <<>>]

\* ls_tree.rs:95-162 print_tree_object without options: one line per entry
\* "<mode> <name>\0<20 bytes>", each with the kind of the object it names
RECURSIVE print_tree_object(_, _)
print_tree_object(body, lines) ==
    IF body = <<>> THEN [ok |-> TRUE, err |-> "", lines |-> lines]
    ELSE LET nul == FirstIndex(body, 0)
             mode_and_file == SubSeq(body, 1, nul - 1)
             rest == SubSeq(body, nul + 1, Len(body))
             sp == FirstIndex(mode_and_file, 32)
             mode == SubSeq(mode_and_file, 1, sp - 1)
             after == SubSeq(mode_and_file, sp + 1, Len(mode_and_file))
             sp2 == FirstIndex(after, 32)
             filename == IF sp2 = 0 THEN after ELSE SubSeq(after, 1, sp2 - 1)
             hash == HexEncode(SubSeq(rest, 1, 20))
             entry_obj == ReadByHash(hash)
         IN IF nul = 0 \/ sp = 0 THEN LsFailed("panic")
            ELSE IF Len(rest) < 20 THEN LsFailed("Io")
            ELSE IF ~entry_obj.ok THEN LsFailed(entry_obj.err)
            ELSE print_tree_object(SubSeq(rest, 21, Len(rest)),
                    Append(lines, [mode |-> PadLeft(mode, 6), kind |-> entry_obj.kind,
                                   hash |-> hash, path |-> filename]))

\* deepest chain of commits and tags ls-tree follows in the model
MaxDepth == 5

\* ls_tree.rs:44-80 ls_tree(obj_id): its outcomes.  A tree is printed, a
\* commit is parsed and its tree listed, a blob is refused; when the read
\* fails the id is tried as a tag.  "overflow" stands for a recursion deeper
\* than MaxDepth.
RECURSIVE ls_tree(_, _, _)
ls_tree(obj_id, tags, depth) ==
    IF depth > MaxDepth THEN {LsFailed("overflow")}
    ELSE UNION {
        IF obj.ok /\ obj.kind = "tree" THEN {print_tree_object(obj.body, <<>>)}
        ELSE IF obj.ok /\ obj.kind = "commit"
        THEN (IF Commit_from(obj.body).ok
              THEN ls_tree(Commit_from(obj.body).tree, tags, depth + 1)
              ELSE {LsFailed("panic")})
        ELSE IF obj.ok THEN {LsFailed("InvalidObjectId")}
        ELSE IF obj.err = "panic" THEN {LsFailed("panic")}
        ELSE IF get_tag(tags, obj_id).some
        THEN ls_tree(get_tag(tags, obj_id).obj_id, tags, depth + 1)
        ELSE {LsFailed("InvalidObjectId")}
        : obj \in ReadResults(obj_id)}

\* tag names "v1" and "v2x", and an id that names nothing: "zz9"
Name_v1 == <<118, 49>>
Name_v2x == <<118, 50, 120>>
Name_zz9 == <<122, 122, 57>>

NoTags == [n \in {} |-> <<>>]

\* the states of refs/tags: no tag; v1 holding a hash and a newline; v1
\* holding a hash between blanks; v1 naming the tag v2x, which holds a hash;
\* v1 holding an id of no object
TagFiles(h) ==
    {NoTags,
     [n \in {Name_v1} |-> h \o <<10>>],
     [n \in {Name_v1} |-> <<32>> \o h \o <<32, 10>>],
     [n \in {Name_v1, Name_v2x} |-> IF n = Name_v1 THEN Name_v2x \o <<10>> ELSE h],
     [n \in {Name_v1} |-> Name_zz9 \o <<10>>]}

\* the hashes tag files hold: of the tree and of the commit with a parent
TaggedHashes ==
    {HexChars(MainTree.hash),
     HexChars(MainObject("commit", commit_text(TreeHash, ParentHash, Message)).hash)}

\* the ids ls-tree is given: tag names, an id of nothing,
\* the full hashes of the objects written and of the objects of main.rs
TreeIshes ==
    {Name_v1, Name_v2x, Name_zz9}
        \cup {HexChars(o.hash) : o \in written \cup MainObjects}

\* ls_tree_command: git ls-tree <tree-ish>
LsTreeCommand ==
    \E obj_id \in TreeIshes :
        \E h \in TaggedHashes :
            \E tags \in TagFiles(h) :
                \E res \in ls_tree(obj_id, tags, 1) :
                    /\ out' = [op |-> "ls-tree", id |-> obj_id, tags |-> tags,
                               res |-> res]
                    /\ UNCHANGED <<fsVars, written, procVars>>

\* the ids commit-tree is given: an id of nothing and the full hashes of the
\* objects written
CommitIds == {Name_zz9} \cup {HexChars(o.hash) : o \in written}

\* commit_tree.rs:31-96 commit_tree_command: read the tree and the parent,
\* build the text, store it as a "commit"
CommitTreeCommand ==
    /\ Cardinality(written) < MaxObjects
    /\ \E tree_arg \in CommitIds, parent_arg \in {<<>>} \cup CommitIds :
          \E tree \in ReadResults(tree_arg) :
              \E parent \in (IF parent_arg = <<>> THEN {Failed("")}
                             ELSE ReadResults(parent_arg)) :
                  LET failed == ~tree.ok \/ (parent_arg # <<>> /\ ~parent.ok)
                      commit == ObjectOf("commit",
                                   commit_text(tree.sha1, parent.sha1, Message), <<>>)
                  IN /\ IF failed
                        THEN UNCHANGED <<dirs, store, written>>
                        ELSE /\ store' = StoreAll(store, <<commit>>)
                             /\ dirs' = dirs \cup {ObjectPath(commit.hash).dir}
                             /\ written' = written \cup
                                   {[kind |-> "commit", body |-> commit.body,
                                     hash |-> commit.hash]}
                     /\ out' = [op |-> "commit-tree", tree |-> tree_arg,
                                parent |-> parent_arg,
                                err |-> IF ~tree.ok THEN tree.err
                                        ELSE IF failed THEN parent.err ELSE "",
                                hash |-> IF failed THEN <<>> ELSE commit.hash]
    /\ UNCHANGED <<tmp, procVars>>

\* ls_tree_command given the hash that the write-tree before it printed, with
\* no tags
LsTreeOfWritten ==
    /\ out.op = "write-tree"
    /\ out.res.ok
    /\ \E res \in ls_tree(HexChars(out.res.hash), NoTags, 1) :
          out' = [op |-> "ls-tree-of-written", id |-> HexChars(out.res.hash),
                  entries |-> out.res.entries, res |-> res]
    /\ UNCHANGED <<fsVars, written, procVars>>

\* hash_object_command with -w
HashObjectWrite == \E input \in Bodies : hash_object("blob", input, TRUE)

\* write-tree, commit-tree, hash-object -w and ls-tree of a written tree, on
\* a store that starts empty
NextTree ==
    \/ WriteTreeCommand
    \/ CommitTreeCommand
    \/ HashObjectWrite
    \/ LsTreeOfWritten

SpecTree == Init /\ [][NextTree]_vars

\* main.rs:257-258 write_object of the tree whose write_all fails:
\* File::create has made the object file, and it holds nothing or the bytes
\* of the first write
MainWriteInterrupted ==
    /\ Cardinality(DOMAIN store) < MaxObjects
    /\ \E o \in {MainTree} :
          LET stream == encode_obj_content(obj_header(o.kind, Len(o.body)) \o o.body)
          IN /\ ObjectPath(o.hash) \notin DOMAIN store
             /\ dirs' = dirs \cup {ObjectPath(o.hash).dir}
             /\ \E part \in {<<>>, FirstPart(stream)} :
                   store' = Rename(store, ObjectPath(o.hash), part)
             /\ out' = [op |-> "main-write-interrupted", kind |-> o.kind,
                        body |-> o.body, hash |-> o.hash]
    /\ UNCHANGED <<tmp, written, procVars>>

\* hash_object_command without -w
HashObjectNoWrite == \E input \in Bodies : hash_object("blob", input, FALSE)

CatFailed(e) == [ok |-> FALSE, err |-> e, printed |-> <<>>]
CatPrinted(p) == [ok |-> TRUE, err |-> "", printed |-> p]

\* util.rs get_object_from_path and decode_obj_content: the inflated bytes of
\* the file at a path
get_object_from_path(path) ==
    IF path \notin DOMAIN store THEN [ok |-> FALSE, err |-> "Io", data |-> <<>>]
    ELSE IF ~Inflate(store[path]).ok THEN [ok |-> FALSE, err |-> "Io", data |-> <<>>]
    ELSE [ok |-> TRUE, err |-> "", data |-> Inflate(store[path]).data]

\* util.rs get_object of a full hash: find_object_file, get_object_from_path
get_object(hash) ==
    LET f == CHOOSE f \in find_object_file(hash) : TRUE
    IN IF ~f.ok THEN [ok |-> FALSE, err |-> f.err, data |-> <<>>]
       ELSE get_object_from_path(f.path)

\* util.rs find_null_byte_index: the 0-based index of the first NUL, or the
\* length
find_null_byte_index(content) ==
    IF FirstIndex(content, 0) = 0 THEN Len(content) ELSE FirstIndex(content, 0) - 1

\* util.rs get_object_header(decoded_content, index): the first two pieces of
\* decoded_content[0..index] split at spaces; a header of one piece panics
util_get_object_header(decoded_content, index) ==
    LET hdr_bytes == SubSeq(decoded_content, 1, index)
        sp == FirstIndex(hdr_bytes, 32)
        after == SubSeq(hdr_bytes, sp + 1, Len(hdr_bytes))
        sp2 == FirstIndex(after, 32)
    IN IF sp = 0 THEN [panic |-> TRUE, obj_type |-> <<>>, obj_len |-> <<>>]
       ELSE [panic |-> FALSE, obj_type |-> SubSeq(hdr_bytes, 1, sp - 1),
             obj_len |-> IF sp2 = 0 THEN after ELSE SubSeq(after, 1, sp2 - 1)]

\* cat_file.rs:72-96 handle_cat_file_tree_object: one line for each entry,
\* with the type found in the header of the object the entry names
RECURSIVE handle_cat_file_tree_object(_, _)
handle_cat_file_tree_object(content, lines) ==
    IF content = <<>> THEN CatPrinted(lines)
    ELSE LET index == find_null_byte_index(content)
             mode_and_file == SubSeq(content, 1, index)
             sp == FirstIndex(mode_and_file, 32)
             after == SubSeq(mode_and_file, sp + 1, Len(mode_and_file))
             sp2 == FirstIndex(after, 32)
             rest == SubSeq(content, index + 2, Len(content))
             hash == HexEncode(SubSeq(rest, 1, 20))
             obj_contents == get_object(hash)
             hdr == util_get_object_header(obj_contents.data,
                                           find_null_byte_index(obj_contents.data))
         IN IF index >= Len(content) \/ sp = 0 \/ Len(rest) < 20 THEN CatFailed("panic")
            ELSE IF ~obj_contents.ok THEN CatFailed(obj_contents.err)
            ELSE IF hdr.panic THEN CatFailed("panic")
            ELSE handle_cat_file_tree_object(SubSeq(rest, 21, Len(rest)),
                    Append(lines,
                           [mode |-> PadLeft(SubSeq(mode_and_file, 1, sp - 1), 6),
                            kind |-> hdr.obj_type, hash |-> hash,
                            path |-> IF sp2 = 0 THEN after
                                     ELSE SubSeq(after, 1, sp2 - 1)]))

\* the operations of cat-file: -e, -p, -t, -s
CatFileOperations == {"exists", "pretty", "obj_type", "show_size"}

\* cat_file.rs:27-62 cat_file_command: its outcomes
cat_file(object, operation) ==
    {IF ~f.ok THEN CatFailed(f.err)
     ELSE IF operation = "exists" THEN CatPrinted(<<>>)
     ELSE LET decoded == get_object_from_path(f.path)
              index == find_null_byte_index(decoded.data)
              hdr == util_get_object_header(decoded.data, index)
              content == SubSeq(decoded.data, index + 2, Len(decoded.data))
          IN IF ~decoded.ok THEN CatFailed(decoded.err)
             ELSE IF hdr.panic \/ index >= Len(decoded.data) THEN CatFailed("panic")
             ELSE IF operation = "obj_type" THEN CatPrinted(hdr.obj_type)
             ELSE IF operation = "show_size" THEN CatPrinted(hdr.obj_len)
             ELSE IF GitObjectType(hdr.obj_type) = "" THEN CatFailed("panic")
             ELSE IF GitObjectType(hdr.obj_type) = "tree"
             THEN handle_cat_file_tree_object(content, <<>>)
             ELSE CatPrinted(content)
     : f \in find_object_file(HexDigits(object))}

\* the ids cat-file is given: an id of nothing, the full hashes of the
\* objects written and of the objects of main.rs
CatFileIds == {Name_zz9} \cup {HexChars(o.hash) : o \in written \cup MainObjects}

\* cat_file_command: git cat-file (-e | -p | -t | -s) <object>
CatFileCommand ==
    \E object \in CatFileIds, operation \in CatFileOperations :
        \E res \in cat_file(object, operation) :
            /\ out' = [op |-> "cat-file", id |-> object, operation |-> operation,
                       res |-> res]
            /\ UNCHANGED <<fsVars, written, procVars>>

\* ls-tree, cat-file and hash-object on a store of typed objects, whole or
\* cut short
NextLsTree ==
    \/ MainHashObject
    \/ MainWriteInterrupted
    \/ LsTreeCommand
    \/ CatFileCommand
    \/ HashObjectNoWrite

SpecLsTree == Init /\ [][NextLsTree]_vars

-----------------------------------------------------------------------------
(* Properties of the parsers under SpecParse.                               *)

\* C12: Commit::from of a commit body without a parent line (tree, author,
\* committer, an empty line, the message), as commit-tree writes it without
\* -p, succeeds with no parent and with tree, author and committer taken
\* from their own lines.
C12_CommitWithoutParent ==
    (out.op = "commit-from" /\ out.body = commit_text(TreeHash, <<>>, Message)) =>
        /\ out.res.ok
        /\ ~out.res.has_parent
        /\ out.res.tree = HexChars(TreeHash)
        /\ out.res.author = AuthorIdent
        /\ out.res.committer = CommitterIdent

\* C13: Commit::from of a commit body whose header lines are not in the
\* order tree, (parent), author, committer, such as a body that starts with
\* a parent line followed by a tree line, fails with the error value
\* InvalidCommitFormat.
C13_CommitOrderMandatory ==
    (/\ out.op = "commit-from"
     /\ out.names \notin {<<"tree", "author", "committer">>,
                          <<"tree", "parent", "author", "committer">>}) =>
        /\ ~out.res.ok
        /\ out.res.err = "InvalidCommitFormat"

\* the file mode strings a tree entry may carry
GitModes ==
    {<<48, 52, 48, 48, 48, 48>>, <<49, 48, 48, 54, 52, 52>>,
     <<49, 48, 48, 55, 53, 53>>, <<49, 50, 48, 48, 48, 48>>}

\* C16: for every mode of a directory, regular file or symbolic link, the
\* mode recorded in the tree entry has one of four values: 040000, 100644,
\* 100755 or 120000.
C16_FourModes ==
    (/\ out.op = "make-tree-entry"
     /\ TypeBits(out.raw_mode) \in {S_IFDIR, S_IFREG, S_IFLNK}) =>
        /\ ~out.panic
        /\ OctalValue(out.entry.mode) \in {OctalValue(m) : m \in GitModes}

\* the parts make no well-formed object "<kind> <len>\0<body>"
Malformed(c) ==
    \/ ~c.nul
    \/ ~c.space
    \/ c.type \notin {KindBytes("blob"), KindBytes("tree"), KindBytes("commit")}
    \/ c.len \notin {<<48>>, <<49>>, <<50>>}
    \/ c.len # DecimalBytes(Len(c.body))

\* C20: a read of a stored file whose inflated bytes are malformed (no NUL
\* byte, no space in the header, an unknown kind, a length that is not
\* decimal, a body whose length is not the declared one) fails with an error
\* value: it returns no object and does not panic.
C20_MalformedObject ==
    (out.op = "read-stored" /\ Malformed(out.parts)) =>
        /\ ~out.res.ok
        /\ out.res.err # "panic"

-----------------------------------------------------------------------------
(* Properties of write-tree under SpecTree.                                 *)

\* the name an entry is ordered by: a directory's name is followed by "/"
GitName(entry) == IF entry.mode = DirMode THEN entry.name \o <<47>> ELSE entry.name

StrictlyAscending(entries) ==
    \A i \in 1..(Len(entries) - 1) :
        CompareBytes(GitName(entries[i]), GitName(entries[i + 1])) < 0

Names(entries) == [i \in 1..Len(entries) |-> entries[i].name]

\* C11: the entries of a tree that write-tree writes are in strictly
\* ascending order of name, a directory's name compared as though followed
\* by "/", and no two entries have the same name; for foo.txt (file), foo
\* (directory) and foo2 (file), in whatever order the scan yields them, the
\* order is foo.txt, foo, foo2.
C11_TreeOrder ==
    (out.op = "write-tree" /\ out.res.ok) =>
        /\ StrictlyAscending(out.res.entries)
        /\ \A i, j \in 1..Len(out.res.entries) :
              i # j => out.res.entries[i].name # out.res.entries[j].name
        /\ Range(out.dir) = FooEntries =>
              Names(out.res.entries) = <<Name_foo_txt, Name_foo, Name_foo2>>

\* C14: write-tree of a directory that holds an empty subdirectory fails, or
\* writes a tree with no entry for that subdirectory.
C14_EmptySubdirectory ==
    out.op = "write-tree" =>
        \A i \in 1..Len(out.dir) :
            (/\ out.dir[i].type = "dir"
             /\ out.dir[i].kids = <<>>
             /\ out.dir[i].name # GIT_DIR_NAME) =>
                \/ ~out.res.ok
                \/ \A k \in 1..Len(out.res.entries) :
                      out.res.entries[k].name # out.dir[i].name

\* entries that write-tree reads without failure
Sound(entry) ==
    entry \in FooEntries \cup {Directory(Name_sub, <<>>)}

\* C17: when write-tree meets an entry that is no regular file, directory or
\* symbolic link, it returns the error value UnsupportedFileType: it does
\* not panic, and it writes no tree that holds the entry.
C17_UnsupportedFileType ==
    out.op = "write-tree" =>
        \A i \in 1..Len(out.dir) :
            (/\ out.dir[i].type = "chardev"
             /\ \A j \in 1..(i - 1) : Sound(out.dir[j])) =>
                /\ ~out.res.ok
                /\ out.res.err = "UnsupportedFileType"

\* the directories, at any depth, that hold a file that cannot be read
RECURSIVE UnreadableIn(_, _)
UnreadableIn(dir, path) ==
    (IF \E i \in 1..Len(dir) : dir[i].type = "file" /\ ~dir[i].opens
     THEN {path} ELSE {})
        \cup UNION {UnreadableIn(dir[i].kids, Append(path, dir[i].name)) :
                        i \in {k \in 1..Len(dir) : dir[k].type = "dir"}}

RECURSIVE HasDevice(_)
HasDevice(dir) ==
    \E i \in 1..Len(dir) : dir[i].type = "chardev" \/ HasDevice(dir[i].kids)

\* C18: when reading a file fails during write-tree, write-tree returns the
\* error, and writes no tree for the directory that held the failure or for
\* a directory above it; the store holds what was written before the
\* failure, and nothing else.
C18_NoPartialTree ==
    (/\ out.op = "write-tree"
     /\ UnreadableIn(out.dir, <<>>) # {}
     /\ ~HasDevice(out.dir)) =>
        /\ ~out.res.ok
        /\ out.res.err = "Io"
        /\ out.res.hash = <<>>
        /\ \A o \in Range(out.res.objs) :
              o.kind = "tree" => ~IsPrefix(o.path, out.res.failed_at)
        /\ \A o \in Range(out.res.objs) : ObjectPath(o.hash) \in DOMAIN store

C18_Witness ==
    /\ out.op = "write-tree"
    /\ UnreadableIn(out.dir, <<>>) = {<<>>}
    /\ ~out.res.ok
    /\ \E o \in Range(out.res.objs) : o.kind = "tree" /\ o.path = <<Name_foo>>

-----------------------------------------------------------------------------
(* Properties of ls-tree under SpecLsTree.                                  *)

\* the id resolves to no object that can be read
Unresolvable(obj_id) == \A obj \in ReadResults(obj_id) : ~obj.ok /\ obj.err # "panic"

\* the listing of the tree of main.rs: its one entry, a blob
MainTreeListing ==
    <<[mode |-> <<49, 48, 48, 54, 52, 52>>, kind |-> "blob", hash |-> MainBlob.hash,
       path |-> Name_a_txt]>>

-----------------------------------------------------------------------------
(* Lifetime of stored objects.                                              *)

\* no writer is in the middle of a write
Quiescent == \A w \in Writers : wpc[w] \in {"idle", "done", "failed", "killed"}

\* C19: after any sequence of operations, an object once stored under its
\* hash is still in the store and still decodes to the same kind and body:
\* no operation, completed or failed, alters or removes a stored object.
C19_StoredObjectsKept ==
    Quiescent =>
        \A o \in written :
            /\ ObjectPath(o.hash) \in DOMAIN store
            /\ LET obj == Decode(o.hash, ObjectPath(o.hash), store[ObjectPath(o.hash)])
               IN obj.ok /\ obj.kind = o.kind /\ obj.body = o.body

-----------------------------------------------------------------------------
(* Properties of mode_to_string and get_tz under SpecParse.                 *)

Abs(n) == IF n < 0 THEN -n ELSE n

TwoDigits(n) == <<48 + (n \div 10), 48 + (n % 10)>>

\* C26: get_tz renders a local offset from -12:00 to +14:00 as a sign, two
\* hour digits and two minute digits (-0500, +0000, +0530, -0330); for a
\* negative offset the string starts with '-' and holds no other sign.
C26_TimeZoneFormat ==
    out.op = "get-tz" =>
        /\ out.tz = <<IF out.local_offset < 0 THEN 45 ELSE 43>>
              \o TwoDigits(Abs(out.local_offset) \div 3600)
              \o TwoDigits((Abs(out.local_offset) % 3600) \div 60)
        /\ out.local_offset < 0 =>
              /\ out.tz[1] = 45
              /\ \A i \in 2..Len(out.tz) : out.tz[i] \notin {43, 45}

-----------------------------------------------------------------------------
(* Writing an object whose path exists, under SpecInPlace.                  *)

\* C21: when the path of an object's hash already holds the object, Write
\* leaves the file at that path as it is: no step of a write replaces,
\* truncates or removes a complete object file.
C21_ExistingFileUntouched ==
    [][\A p \in DOMAIN store :
          CompleteObject(store[p]) =>
              /\ p \in DOMAIN store'
              /\ store'[p] = store[p]]_vars

-----------------------------------------------------------------------------
(* HashObjectWriter, one write call at a time.  whash[w] is the sequence of *)
(* bytes the hasher of w was fed, tmp[TempName(w)] the bytes its underlying *)
(* writer accepted, wbody[w] the rest of a buffer the caller has to offer   *)
(* again.                                                                   *)

\* most bytes offered to one HashObjectWriter
MaxWritten == 3

\* hash_object.rs:124 HashObjectWriter::new over a new temporary file
HWNew(w) ==
    /\ wpc[w] = "idle"
    /\ tmp' = Rename(tmp, TempName(w), <<>>)
    /\ whash' = [whash EXCEPT ![w] = <<>>]
    /\ wbody' = [wbody EXCEPT ![w] = <<>>]
    /\ wpc' = [wpc EXCEPT ![w] = "hw"]
    /\ UNCHANGED <<dirs, store, written, out, rpc, rid, rpath, rseen>>

\* the buffers the caller may offer next: the rest of the last one when the
\* underlying writer took a part of it only (the loop of write_all and of
\* the zlib encoder), any new buffer otherwise
NextBuffers(w) ==
    IF wbody[w] # <<>> THEN {wbody[w]}
    ELSE {buf \in SeqsUpTo(ByteAlphabet, MaxWritten) :
            /\ buf # <<>>
            /\ Len(tmp[TempName(w)]) + Len(buf) <= MaxWritten}

\* hash_object.rs:139 HashObjectWriter::write(buf): hasher.update(buf), then
\* the underlying writer accepts the first n bytes and n is returned
HashObjectWriter_write(w, buf, n) ==
    /\ whash' = [whash EXCEPT ![w] = @ \o buf]
    /\ tmp' = [tmp EXCEPT ![TempName(w)] = @ \o SubSeq(buf, 1, n)]
    /\ wbody' = [wbody EXCEPT ![w] = SubSeq(buf, n + 1, Len(buf))]

\* one write call of the caller; the underlying writer accepts one byte at
\* least (a return of 0 ends the caller's loop with an error)
HWWrite(w) ==
    /\ wpc[w] = "hw"
    /\ \E buf \in NextBuffers(w) :
          \E n \in 1..Len(buf) : HashObjectWriter_write(w, buf, n)
    /\ UNCHANGED <<dirs, store, written, out, wpc, rpc, rid, rpath, rseen>>

\* hash_object.rs:131 hash(), once the caller has no bytes left to offer
HWHash(w) ==
    /\ wpc[w] = "hw"
    /\ wbody[w] = <<>>
    /\ wpc' = [wpc EXCEPT ![w] = "hashed"]
    /\ UNCHANGED <<dirs, store, tmp, written, out, wbody, whash, rpc, rid, rpath, rseen>>

NextWriter ==
    \/ \E w \in Writers : HWNew(w)
    \/ \E w \in Writers : HWWrite(w)
    \/ \E w \in Writers : HWHash(w)

SpecWriter == Init /\ [][NextWriter]_vars

\* C30: for every sequence of write calls, calls of which the underlying
\* writer accepts a part only and the caller offers the rest again
\* included, the bytes fed to the hasher are the bytes that reached the
\* underlying file, in the same order, whenever the caller has no rest of a
\* buffer left to offer.
C30_HashedOnce ==
    \A w \in Writers :
        (wpc[w] \in {"hw", "hashed"} /\ wbody[w] = <<>>) =>
            whash[w] = tmp[TempName(w)]

-----------------------------------------------------------------------------
(* Properties of commit-tree, of the references between stored objects and  *)
(* of ls-tree after write-tree, under SpecTree.                             *)

\* the objects written as kind that have the hash an id spells in full
WrittenAs(kind, id) ==
    {w \in written : w.kind = kind /\ HexChars(w.hash) = id}

\* C24: every commit object commit-tree writes has a tree line naming the
\* full hash of a stored object of kind Tree; given an id of a blob or of a
\* commit, commit-tree writes no commit.
C24_CommitNamesTree ==
    (out.op = "commit-tree" /\ out.hash # <<>>) =>
        /\ WrittenAs("tree", out.tree) # {}
        /\ \A c \in WrittenAs("commit", HexChars(out.hash)) :
              get_entry(c.body, 1, "tree").val = out.tree

\* the hashes a serialized tree names: the 20 bytes after each NUL
RECURSIVE TreeChildren(_)
TreeChildren(body) ==
    LET nul == FirstIndex(body, 0)
    IN IF nul = 0 \/ Len(body) < nul + 20 THEN {}
       ELSE {HexEncode(SubSeq(body, nul + 1, nul + 20))}
               \cup TreeChildren(SubSeq(body, nul + 21, Len(body)))

\* the hashes the tree line and the parent line of a commit text name
CommitRefs(body) ==
    LET tree == get_entry(body, 1, "tree")
        parent == get_entry(body, tree.next, "parent")
    IN {HexDigits(tree.val)}
          \cup (IF parent.some THEN {HexDigits(parent.val)} ELSE {})

\* an object file of that hash is in the store and decodes
Present(hash) ==
    /\ ObjectPath(hash) \in DOMAIN store
    /\ Decode(hash, ObjectPath(hash), store[ObjectPath(hash)]).ok

\* C28: after any sequence of write-tree, commit-tree and hash-object -w on
\* a store that was empty, every child hash of every stored tree and the
\* tree and parent hash of every stored commit is the hash of an object in
\* the store.
C28_ReferencesPresent ==
    \A w \in written :
        /\ w.kind = "tree" => \A h \in TreeChildren(w.body) : Present(h)
        /\ w.kind = "commit" => \A h \in CommitRefs(w.body) : Present(h)

C28_Witness ==
    /\ out.op = "commit-tree"
    /\ out.hash # <<>>
    /\ out.parent # <<>>
    /\ \E w \in written :
          /\ w.kind = "commit"
          /\ HexChars(w.hash) # out.tree
          /\ CommitRefs(w.body) = {HexDigits(out.tree), HexDigits(out.parent)}

\* C23: a non-recursive ls-tree of the hash of a tree write-tree wrote gives
\* one row for each entry, in the stored order, with the mode padded to six
\* digits, the whole name and the child hash that write-tree serialized.
C23_LsTreeOfWriteTree ==
    out.op = "ls-tree-of-written" =>
        /\ out.res.ok
        /\ Len(out.res.lines) = Len(out.entries)
        /\ \A i \in 1..Len(out.entries) :
              /\ out.res.lines[i].mode = PadLeft(out.entries[i].mode, 6)
              /\ out.res.lines[i].path = out.entries[i].name
              /\ out.res.lines[i].hash = out.entries[i].sha1

-----------------------------------------------------------------------------
(* Properties of the reading commands under SpecLsTree.                     *)

\* the failures of reading the file an id resolves to: the errors of
\* GitObject::read other than InvalidObjectId, for an id that resolves
ReadFailures(obj_id) ==
    {obj.err : obj \in {o \in ReadResults(obj_id) :
                           ~o.ok /\ o.err \in {"Io", "ReadObjectError"}}}

\* C22: when the read ls-tree performs fails with an I/O failure or a decode
\* failure, ls-tree reports that failure: it does not report
\* InvalidObjectId, and does not take the id for a tag name.
C22_ReadFailureReported ==
    (out.op = "ls-tree" /\ ReadFailures(out.id) # {}
        /\ \A obj \in ReadResults(out.id) : ~obj.ok)
        => out.res.err \in ReadFailures(out.id)

\* C29: cat-file with -e, -p, -t or -s, ls-tree, and hash-object without -w
\* leave the object store as it was, whether they succeed or fail: no file
\* under the objects directory is created, replaced or removed.
C29_ReadingCommandsFrame ==
    [][(\/ out'.op \in {"cat-file", "ls-tree"}
        \/ (out'.op = "hash-object" /\ ~out'.wrote))
          => UNCHANGED <<dirs, store, written>>]_vars

C29_Witness ==
    /\ out.op = "cat-file"
    /\ out.operation = "pretty"
    /\ out.res.ok
    /\ out.res.printed # <<>>
    /\ store # EmptyFiles

-----------------------------------------------------------------------------
(* ls-tree, one call of ls_tree at a time.  rid[r] is the stack of the      *)
(* calls that run, the obj_id of each; rseen[r] is the files of refs/tags   *)
(* the command reads; rpc[r] is "ls_tree" until the innermost call returns  *)
(* without a call of ls_tree, and every call returns what that one returns. *)

\* the states of refs/tags of a run: those of TagFiles for the tree, v1
\* holding its own name, and v1 and v2x holding the name of each other
RunTagFiles ==
    TagFiles(HexChars(MainTree.hash))
        \cup {[n \in {Name_v1} |-> Name_v1 \o <<10>>],
              [n \in {Name_v1, Name_v2x} |->
                  IF n = Name_v1 THEN Name_v2x \o <<10>> ELSE Name_v1 \o <<10>>]}

\* ls_tree.rs:40 ls_tree_command calls ls_tree(&args.tree_ish, &args)
LsStart(r) ==
    /\ rpc[r] = "idle"
    /\ \E obj_id \in TreeIshes, tags \in RunTagFiles :
          /\ rid' = [rid EXCEPT ![r] = <<obj_id>>]
          /\ rseen' = [rseen EXCEPT ![r] = tags]
    /\ rpc' = [rpc EXCEPT ![r] = "ls_tree"]
    /\ UNCHANGED <<fsVars, written, out, wpc, wbody, whash, rpath>>

\* the innermost call returns res, and so does ls_tree_command
LsReturn(r, res) ==
    /\ rpc' = [rpc EXCEPT ![r] = "returned"]
    /\ out' = [op |-> "ls-tree-returned", id |-> rid[r][1], res |-> res]
    /\ UNCHANGED rid

\* the innermost call calls ls_tree(obj_id); a stack of more than MaxDepth
\* calls does not fit the memory of the process, which is aborted
LsRecurse(r, obj_id) ==
    /\ rid' = [rid EXCEPT ![r] = Append(@, obj_id)]
    /\ rpc' = [rpc EXCEPT ![r] = IF Len(rid[r]) < MaxDepth THEN "ls_tree"
                                  ELSE "aborted"]
    /\ UNCHANGED out

\* ls_tree.rs:44-80 the innermost call of ls_tree(obj_id), to its return or
\* to its call of ls_tree
LsCall(r) ==
    /\ rpc[r] = "ls_tree"
    /\ LET obj_id == rid[r][Len(rid[r])]
       IN \E obj \in ReadResults(obj_id) :
             IF obj.ok /\ obj.kind = "tree"
             THEN LsReturn(r, print_tree_object(obj.body, <<>>))
             ELSE IF obj.ok /\ obj.kind = "commit"
             THEN (IF Commit_from(obj.body).ok
                   THEN LsRecurse(r, Commit_from(obj.body).tree)
                   ELSE LsReturn(r, LsFailed("panic")))
             ELSE IF obj.ok THEN LsReturn(r, LsFailed("InvalidObjectId"))
             ELSE IF obj.err = "panic" THEN LsReturn(r, LsFailed("panic"))
             ELSE IF get_tag(rseen[r], obj_id).some
             THEN LsRecurse(r, get_tag(rseen[r], obj_id).obj_id)
             ELSE LsReturn(r, LsFailed("InvalidObjectId"))
    /\ UNCHANGED <<fsVars, written, wpc, wbody, whash, rpath, rseen>>

NextLsRun ==
    \/ MainHashObject
    \/ \E r \in Readers : LsStart(r)
    \/ \E r \in Readers : LsCall(r)

SpecLsRun == Init /\ [][NextLsRun]_vars

\* C27: ls-tree terminates, with a listing or an error, for every state of
\* the object store and of the tags directory, a tag file whose content is
\* its own name and tag files that name each other included: no call of
\* ls_tree is made for the obj_id of a call that is still running (in the
\* same store and tags, such a call repeats the calls between the two
\* without end), and no run is aborted.
C27_LsTreeTerminates ==
    \A r \in Readers :
        /\ rpc[r] # "aborted"
        /\ rpc[r] \in {"ls_tree", "returned"} =>
              \A i, j \in 1..Len(rid[r]) : i # j => rid[r][i] # rid[r][j]

====
